---- MODULE Spec2Model ----
(***************************************************************************)
(* Model of src/App.tsx: the React component App of Gemini Text-to-Speech. *)
(*                                                                         *)
(* The state is the component's useState cells, the async handler          *)
(* invocations suspended at `await ai.models.generateContent(...)`, the    *)
(* browser's blob-URL store and the Audio elements the preview creates.    *)
(* One action is one turn of the event loop: a DOM event with its handler  *)
(* run up to its first await (React re-renders before the next event), or  *)
(* the resumption of a suspended handler when its remote call settles, run *)
(* through catch and finally to the end.                                   *)
(*                                                                         *)
(* A JavaScript string is a sequence of chunks: a chunk is one whitespace  *)
(* character or a run of text that neither starts nor ends with            *)
(* whitespace, so trim() and concatenation act as on the string itself.    *)
(* speed is held in hundredths and pitch in tenths (the sliders' steps are *)
(* 0.05 and 0.5), so both are integers.                                    *)
(***************************************************************************)
EXTENDS Integers, Sequences, FiniteSets, TLC

VARIABLES narratorScript, isAnalyzing, text, styleInstructions, selectedVoice,
          speed, pitch, isLoading, audioUrl, error, isVoiceListOpen,
          previewLoadingVoiceId,
          genCalls, prevCalls, anaCalls,
          urlLog, revoked, audios

vars == <<narratorScript, isAnalyzing, text, styleInstructions, selectedVoice,
          speed, pitch, isLoading, audioUrl, error, isVoiceListOpen,
          previewLoadingVoiceId, genCalls, prevCalls, anaCalls,
          urlLog, revoked, audios>>

(* ------------------------------ bounds -------------------------------- *)

\* Blob URLs the session creates (remote synthesis calls the user starts).
MaxObjectUrls == 2
\* Longest string, in chunks, the request-building specifications draw.
MaxLen == 2

(* ------------------------- program constants -------------------------- *)

Null == "<null>"

\* VOICES[0].id after the sort by name, and the last voice of the catalog.
VOICES == <<"achernar", "zubenelgenubi">>

PREVIEW_TEXT == <<"Hello, this is a preview of my voice.">>
DefaultText == <<"Hello! I am a friendly AI assistant powered by Gemini. You can type any text here and I will read it aloud for you.">>
DefaultStyle == <<"Read aloud in a warm, welcoming tone:">>

SpeedMin == 50
SpeedMax == 200
SpeedStep == 5
SpeedNeutral == 100
PitchMin == -200
PitchMax == 200
PitchStep == 5
PitchNeutral == 0

SpeedDomain == {s \in SpeedMin..SpeedMax : (s - SpeedMin) % SpeedStep = 0}
PitchDomain == {p \in PitchMin..PitchMax : (p - PitchMin) % PitchStep = 0}

(* ------------------------------ strings ------------------------------- *)

IsSpace(c) == c \in {" ", "\n", "\t"}

RECURSIVE TrimStart(_)
TrimStart(s) ==
    IF s # <<>> /\ IsSpace(Head(s)) THEN TrimStart(Tail(s)) ELSE s

RECURSIVE TrimEnd(_)
TrimEnd(s) ==
    IF s # <<>> /\ IsSpace(s[Len(s)]) THEN TrimEnd(SubSeq(s, 1, Len(s) - 1)) ELSE s

\* String.prototype.trim
Trim(s) == TrimEnd(TrimStart(s))

\* JavaScript truthiness of a string | null cell (a voice id, a URL, a payload)
Truthy(v) == v # Null /\ v # ""

\* Sequences over alphabet A of length at most n
Strings(A, n) == UNION {[1..k -> A] : k \in 0..n}

(* ------------------------- remote collaborator ------------------------ *)

\* What ai.models.generateContent can settle with for a synthesis request: a
\* rejection carrying a message, or a response whose inlineData.data is absent,
\* the empty string, a well-formed base64 payload or a malformed one.
RemoteMessage == "quota exceeded"
WellFormedPayload == "AAECAw=="
MalformedPayload == "%%%"
DecodeMessage == "The string to be decoded is not correctly encoded."

SynthResponses ==
    {[ok |-> FALSE, message |-> RemoteMessage]}
    \cup {[ok |-> TRUE, data |-> d] : d \in {Null, "", WellFormedPayload, MalformedPayload}}

\* For a text request: a rejection, or a response whose text getter yields a
\* string or undefined.
SuggestedStyle == <<" ", "Speak with a sense of urgency and excitement:", "\n">>
TrimOfUndefinedMessage == "Cannot read properties of undefined (reading 'trim')"

TextResponses ==
    {[ok |-> FALSE, message |-> RemoteMessage],
     [ok |-> TRUE],
     [ok |-> TRUE, text |-> SuggestedStyle]}

\* decode of ./utils/audio, for the payloads the model draws: the bytes a
\* base64 string stands for (AAECAw== is 00 01 02 03, AAE= is 00 01, /w== is
\* FF, the empty string is no byte).
DecodeTable ==
    [d \in {"", WellFormedPayload, "AAE=", "/w=="} |->
        CASE d = "" -> <<>>
          [] d = WellFormedPayload -> <<0, 1, 2, 3>>
          [] d = "AAE=" -> <<0, 1>>
          [] d = "/w==" -> <<255>>]

\* decode throws on input that is not base64
DecodeThrows(data) == data \notin DOMAIN DecodeTable

decode(data) == DecodeTable[data]

\* x as n bytes, least significant first
RECURSIVE LittleEndian(_, _)
LittleEndian(x, n) ==
    IF n = 0 THEN <<>> ELSE <<x % 256>> \o LittleEndian(x \div 256, n - 1)

\* The character codes of "RIFF", "WAVE", "fmt " and "data"
TagRIFF == <<82, 73, 70, 70>>
TagWAVE == <<87, 65, 86, 69>>
TagFmt == <<102, 109, 116, 32>>
TagData == <<100, 97, 116, 97>>

\* pcmToWavBlob of ./utils/audio: the 44-byte header of an uncompressed PCM
\* container, then the samples as they are
pcmToWavBlob(pcmData, options) ==
    LET blockAlign == (options.numChannels * options.bitsPerSample) \div 8
        byteRate ==
            (options.sampleRate * options.numChannels * options.bitsPerSample) \div 8
    IN  TagRIFF \o LittleEndian(Len(pcmData) + 36, 4) \o TagWAVE
        \o TagFmt \o LittleEndian(16, 4) \o LittleEndian(1, 2)
        \o LittleEndian(options.numChannels, 2)
        \o LittleEndian(options.sampleRate, 4)
        \o LittleEndian(byteRate, 4)
        \o LittleEndian(blockAlign, 2)
        \o LittleEndian(options.bitsPerSample, 2)
        \o TagData \o LittleEndian(Len(pcmData), 4)
        \o pcmData

\* URL.createObjectURL: the n-th blob URL of the document
BlobUrl(n) == "blob:" \o ToString(n)

LiveUrls == {BlobUrl(n) : n \in 1..Len(urlLog)} \ revoked

\* s with its i-th element removed
RemoveAt(s, i) == SubSeq(s, 1, i - 1) \o SubSeq(s, i + 1, Len(s))

(* ------------------------- field and list events --------------------- *)

\* onChange of the narrator-script textarea
SetNarratorScript(v) ==
    /\ narratorScript' = v
    /\ UNCHANGED <<isAnalyzing, text, styleInstructions, selectedVoice, speed,
                   pitch, isLoading, audioUrl, error, isVoiceListOpen,
                   previewLoadingVoiceId, genCalls, prevCalls, anaCalls,
                   urlLog, revoked, audios>>

\* onChange of the style-instructions textarea
SetStyleInstructions(v) ==
    /\ styleInstructions' = v
    /\ UNCHANGED <<narratorScript, isAnalyzing, text, selectedVoice, speed,
                   pitch, isLoading, audioUrl, error, isVoiceListOpen,
                   previewLoadingVoiceId, genCalls, prevCalls, anaCalls,
                   urlLog, revoked, audios>>

\* onChange of the text textarea
SetText(v) ==
    /\ text' = v
    /\ UNCHANGED <<narratorScript, isAnalyzing, styleInstructions, selectedVoice,
                   speed, pitch, isLoading, audioUrl, error, isVoiceListOpen,
                   previewLoadingVoiceId, genCalls, prevCalls, anaCalls,
                   urlLog, revoked, audios>>

\* onChange of the speed slider
SetSpeed(v) ==
    /\ speed' = v
    /\ UNCHANGED <<narratorScript, isAnalyzing, text, styleInstructions,
                   selectedVoice, pitch, isLoading, audioUrl, error,
                   isVoiceListOpen, previewLoadingVoiceId, genCalls, prevCalls,
                   anaCalls, urlLog, revoked, audios>>

\* onChange of the pitch slider
SetPitch(v) ==
    /\ pitch' = v
    /\ UNCHANGED <<narratorScript, isAnalyzing, text, styleInstructions,
                   selectedVoice, speed, isLoading, audioUrl, error,
                   isVoiceListOpen, previewLoadingVoiceId, genCalls, prevCalls,
                   anaCalls, urlLog, revoked, audios>>

\* onClick of the voice selector button
ToggleVoiceList ==
    /\ isVoiceListOpen' = ~isVoiceListOpen
    /\ UNCHANGED <<narratorScript, isAnalyzing, text, styleInstructions,
                   selectedVoice, speed, pitch, isLoading, audioUrl, error,
                   previewLoadingVoiceId, genCalls, prevCalls, anaCalls,
                   urlLog, revoked, audios>>

\* mousedown outside the voice selector
handleClickOutside ==
    /\ isVoiceListOpen' = FALSE
    /\ UNCHANGED <<narratorScript, isAnalyzing, text, styleInstructions,
                   selectedVoice, speed, pitch, isLoading, audioUrl, error,
                   previewLoadingVoiceId, genCalls, prevCalls, anaCalls,
                   urlLog, revoked, audios>>

\* onClick of a voice of the open list
SelectVoice(v) ==
    /\ isVoiceListOpen
    /\ selectedVoice' = v
    /\ isVoiceListOpen' = FALSE
    /\ UNCHANGED <<narratorScript, isAnalyzing, text, styleInstructions, speed,
                   pitch, isLoading, audioUrl, error, previewLoadingVoiceId,
                   genCalls, prevCalls, anaCalls, urlLog, revoked, audios>>

(* ---------------------------- voice preview --------------------------- *)

\* The model stops starting synthesis calls once MaxObjectUrls blob URLs are
\* made or may still be made by the calls in flight.
CanSynthesize == Len(urlLog) + Len(genCalls) + Len(prevCalls) < MaxObjectUrls

\* Mutant: the handler relies on the button, which is disabled for one voice only.
PreviewBusyUnchecked == FALSE

\* if (previewLoadingVoiceId) return;
PreviewBusy == Truthy(previewLoadingVoiceId)

\* disabled={previewLoadingVoiceId === voice.id}
PreviewButtonDisabled(voiceId) == previewLoadingVoiceId = voiceId

PreviewRequest(voiceId) ==
    [model |-> "gemini-2.5-flash-preview-tts",
     contents |-> PREVIEW_TEXT,
     speechConfig |-> [voiceName |-> voiceId]]

\* Mutant: the key and the error are set before the busy test.
handlePreviewVoiceKeyFirst(voiceId) ==
    /\ isVoiceListOpen
    /\ ~PreviewButtonDisabled(voiceId)
    /\ previewLoadingVoiceId' = voiceId
    /\ error' = Null
    /\ IF PreviewBusy
       THEN UNCHANGED prevCalls
       ELSE /\ CanSynthesize
            /\ prevCalls' = Append(prevCalls, PreviewRequest(voiceId))
    /\ UNCHANGED <<narratorScript, isAnalyzing, text, styleInstructions,
                   selectedVoice, speed, pitch, isLoading, audioUrl,
                   isVoiceListOpen, genCalls, anaCalls, urlLog, revoked,
                   audios>>

\* onClick of a voice's preview button: handlePreviewVoice up to its await
handlePreviewVoice(voiceId) ==
    /\ isVoiceListOpen
    /\ ~PreviewButtonDisabled(voiceId)
    /\ IF PreviewBusy
       THEN UNCHANGED vars
       ELSE /\ CanSynthesize
            /\ previewLoadingVoiceId' = voiceId
            /\ error' = Null
            /\ prevCalls' = Append(prevCalls, PreviewRequest(voiceId))
            /\ UNCHANGED <<narratorScript, isAnalyzing, text, styleInstructions,
                           selectedVoice, speed, pitch, isLoading, audioUrl,
                           isVoiceListOpen, genCalls, anaCalls, urlLog, revoked,
                           audios>>

\* Mutant: the flag is cleared at the end of the try, not in a finally.
PreviewLoadingKeptOnThrow(threw) == IF threw THEN previewLoadingVoiceId ELSE Null

\* finally { setPreviewLoadingVoiceId(null); }
PreviewLoadingAfterSettle(threw) == Null

\* Mutant: the preview is framed at the sample rate of a CD.
PreviewWavOptionsOtherRate ==
    [sampleRate |-> 44100, numChannels |-> 1, bitsPerSample |-> 16]

\* The options of the preview's pcmToWavBlob call
PreviewWavOptions == [sampleRate |-> 24000, numChannels |-> 1, bitsPerSample |-> 16]

\* const wavBlob = pcmToWavBlob(pcmData, {...}) of the preview
PreviewWavBlob(pcmData) == pcmToWavBlob(pcmData, PreviewWavOptions)

\* The i-th suspended handlePreviewVoice resumes with r: the rest of the try,
\* the catch and the finally. audio.play() starts the playback (plays) or its
\* promise is rejected, as by an autoplay policy once the click's user
\* activation has lapsed during the await; the rejection is not awaited, so
\* nothing catches it and no ended event follows.
PreviewSettle(i, r, plays) ==
    /\ i \in 1..Len(prevCalls)
    /\ prevCalls' = RemoveAt(prevCalls, i)
    /\ LET base64Audio == IF r.ok THEN r.data ELSE Null
           threw == ~r.ok \/ ~Truthy(base64Audio) \/ DecodeThrows(base64Audio)
           message == IF ~r.ok THEN r.message
                      ELSE IF ~Truthy(base64Audio)
                           THEN "No audio data received for preview."
                           ELSE DecodeMessage
           url == BlobUrl(Len(urlLog) + 1)
       IN  /\ IF threw
              THEN /\ error' = "Preview failed: " \o message
                   /\ UNCHANGED <<urlLog, audios>>
              ELSE /\ urlLog' = Append(urlLog,
                                [by |-> "preview",
                                 data |-> base64Audio,
                                 blob |-> PreviewWavBlob(decode(base64Audio))])
                   /\ audios' = IF plays THEN audios \cup {url} ELSE audios
                   /\ UNCHANGED error
           /\ previewLoadingVoiceId' = PreviewLoadingAfterSettle(threw)
    /\ UNCHANGED <<narratorScript, isAnalyzing, text, styleInstructions,
                   selectedVoice, speed, pitch, isLoading, audioUrl,
                   isVoiceListOpen, genCalls, anaCalls, revoked>>

\* audio.onended = () => URL.revokeObjectURL(url)
AudioEnded(url) ==
    /\ url \in audios
    /\ audios' = audios \ {url}
    /\ revoked' = revoked \cup {url}
    /\ UNCHANGED <<narratorScript, isAnalyzing, text, styleInstructions,
                   selectedVoice, speed, pitch, isLoading, audioUrl, error,
                   isVoiceListOpen, previewLoadingVoiceId, genCalls, prevCalls,
                   anaCalls, urlLog>>

(* ---------------------------- script analysis ------------------------- *)

\* Mutant: the script is tested without trim().
ScriptIsEmptyUntrimmed == narratorScript = <<>>

\* if (!narratorScript.trim())
ScriptIsEmpty == Trim(narratorScript) = <<>>

\* Mutant: the analyze button is never disabled.
AnalyzeButtonNeverDisabled == FALSE

\* disabled={isAnalyzing}
AnalyzeButtonDisabled == isAnalyzing

AnalyzePromptHead == "Analyze the following narrator script ... Here is the script:\n---\n"
AnalyzePromptTail == "\n---\nStyle Instruction:"

AnalyzeRequest(script) ==
    [model |-> "gemini-2.5-flash",
     contents |-> <<AnalyzePromptHead>> \o script \o <<AnalyzePromptTail>>]

\* Mutant: the analysis leaves the shown error as it is.
AnalyzeErrorKept == error

\* setError(null) of handleAnalyzeScript, after the validation
AnalyzeErrorAtDispatch == Null

\* onClick of the analyze button: handleAnalyzeScript up to its await
handleAnalyzeScript ==
    /\ ~AnalyzeButtonDisabled
    /\ IF ScriptIsEmpty
       THEN /\ error' = "Please paste a script to analyze."
            /\ UNCHANGED <<isAnalyzing, anaCalls>>
       ELSE /\ error' = AnalyzeErrorAtDispatch
            /\ isAnalyzing' = TRUE
            /\ anaCalls' = Append(anaCalls, AnalyzeRequest(narratorScript))
    /\ UNCHANGED <<narratorScript, text, styleInstructions, selectedVoice, speed,
                   pitch, isLoading, audioUrl, isVoiceListOpen,
                   previewLoadingVoiceId, genCalls, prevCalls, urlLog, revoked,
                   audios>>

\* finally { setIsAnalyzing(false); }
IsAnalyzingAfterSettle(threw) == FALSE

\* Mutant: the response text is stored as it came.
NewStyleUntrimmed(responseText) == responseText

\* const newStyle = response.text.trim()
NewStyle(responseText) == Trim(responseText)

\* The i-th suspended handleAnalyzeScript resumes with r.
AnalyzeSettle(i, r) ==
    /\ i \in 1..Len(anaCalls)
    /\ anaCalls' = RemoveAt(anaCalls, i)
    /\ LET threw == ~r.ok \/ "text" \notin DOMAIN r
           message == IF ~r.ok THEN r.message ELSE TrimOfUndefinedMessage
       IN  /\ IF threw
              THEN /\ error' = "Analysis failed: " \o message
                   /\ UNCHANGED styleInstructions
              ELSE /\ styleInstructions' = NewStyle(r.text)
                   /\ UNCHANGED error
           /\ isAnalyzing' = IsAnalyzingAfterSettle(threw)
    /\ UNCHANGED <<narratorScript, text, selectedVoice, speed, pitch, isLoading,
                   audioUrl, isVoiceListOpen, previewLoadingVoiceId, genCalls,
                   prevCalls, urlLog, revoked, audios>>

(* ---------------------------- speech generation ----------------------- *)

\* Mutant: the text is tested without trim().
TextIsEmptyUntrimmed(body) == body = <<>>

\* if (!trimmedText)
TextIsEmpty(body) == Trim(body) = <<>>

\* Mutant: the generate button is never disabled.
GenerateButtonNeverDisabled == FALSE

\* Mutant: one busy state for the whole form disables the generate button.
GenerateButtonDisabledWhileAnyBusy ==
    isLoading \/ isAnalyzing \/ Truthy(previewLoadingVoiceId)

\* disabled={isLoading}
GenerateButtonDisabled == isLoading

\* Mutant: the style is tested without trim(), so a blank style is a style.
FullPromptUntrimmedTest(style, body) ==
    IF style # <<>>
    THEN Trim(style) \o <<"\n", "\n">> \o Trim(body)
    ELSE Trim(body)

\* fullPrompt
FullPrompt(style, body) ==
    IF Trim(style) # <<>>
    THEN Trim(style) \o <<"\n", "\n">> \o Trim(body)
    ELSE Trim(body)

\* Mutant: one test decides both overrides.
SpeechConfigCoupled(voice, sp, pi) ==
    [voiceName |-> voice]
    @@ (IF sp # SpeedNeutral \/ pi # PitchNeutral
        THEN [rate |-> sp, pitch |-> pi]
        ELSE <<>>)

\* speechConfig, with rate and pitch set only off their defaults
SpeechConfig(voice, sp, pi) ==
    [voiceName |-> voice]
    @@ (IF sp # SpeedNeutral THEN [rate |-> sp] ELSE <<>>)
    @@ (IF pi # PitchNeutral THEN [pitch |-> pi] ELSE <<>>)

GenerateRequest ==
    [model |-> "gemini-2.5-flash-preview-tts",
     contents |-> FullPrompt(styleInstructions, text),
     speechConfig |-> SpeechConfig(selectedVoice, speed, pitch)]

\* Mutant: the result of the earlier generation stays on display.
AudioUrlKeptAtDispatch == audioUrl

\* setAudioUrl(null) of handleGenerateSpeech, after the validation
AudioUrlAtDispatch == Null

\* onClick of the generate button: handleGenerateSpeech up to its await
handleGenerateSpeech ==
    /\ ~GenerateButtonDisabled
    /\ IF TextIsEmpty(text)
       THEN /\ error' = "Please enter some text to generate speech."
            /\ UNCHANGED <<audioUrl, isLoading, genCalls>>
       ELSE /\ CanSynthesize
            /\ error' = Null
            /\ audioUrl' = AudioUrlAtDispatch
            /\ isLoading' = TRUE
            /\ genCalls' = Append(genCalls, GenerateRequest)
    /\ UNCHANGED <<narratorScript, isAnalyzing, text, styleInstructions,
                   selectedVoice, speed, pitch, isVoiceListOpen,
                   previewLoadingVoiceId, prevCalls, anaCalls, urlLog, revoked,
                   audios>>

\* Mutant: the flag is cleared at the end of the try, not in a finally.
IsLoadingKeptOnThrow(threw) == IF threw THEN isLoading ELSE FALSE

\* finally { setIsLoading(false); }
IsLoadingAfterSettle(threw) == FALSE

\* The options of generate's pcmToWavBlob call
GenerateWavOptions == [sampleRate |-> 24000, numChannels |-> 1, bitsPerSample |-> 16]

\* Mutant: the blob is made of the decoded samples, without the header.
GenerateBlobUnframed(pcmData) == pcmData

\* const wavBlob = pcmToWavBlob(pcmData, {...}) of generate
GenerateWavBlob(pcmData) == pcmToWavBlob(pcmData, GenerateWavOptions)

\* Mutant: only a missing payload counts as no audio, an empty one does not.
NoAudioOnlyIfMissing(base64Audio) == base64Audio = Null

\* if (!base64Audio) of handleGenerateSpeech
NoAudio(base64Audio) == ~Truthy(base64Audio)

\* The i-th suspended handleGenerateSpeech resumes with r.
GenerateSettle(i, r) ==
    /\ i \in 1..Len(genCalls)
    /\ genCalls' = RemoveAt(genCalls, i)
    /\ LET base64Audio == IF r.ok THEN r.data ELSE Null
           threw == ~r.ok \/ NoAudio(base64Audio) \/ DecodeThrows(base64Audio)
           message == IF ~r.ok THEN r.message
                      ELSE IF NoAudio(base64Audio)
                           THEN "No audio data received from API."
                           ELSE DecodeMessage
           url == BlobUrl(Len(urlLog) + 1)
       IN  /\ IF threw
              THEN /\ error' = "An error occurred: " \o message
                   /\ UNCHANGED <<urlLog, audioUrl>>
              ELSE /\ urlLog' = Append(urlLog,
                                [by |-> "generate",
                                 request |-> genCalls[i],
                                 data |-> base64Audio,
                                 blob |-> GenerateWavBlob(decode(base64Audio))])
                   /\ audioUrl' = url
                   /\ UNCHANGED error
           /\ isLoading' = IsLoadingAfterSettle(threw)
    /\ UNCHANGED <<narratorScript, isAnalyzing, text, styleInstructions,
                   selectedVoice, speed, pitch, isVoiceListOpen,
                   previewLoadingVoiceId, prevCalls, anaCalls, revoked, audios>>

\* download={`gemini-tts-${selectedVoice}.wav`} of the link rendered while
\* audioUrl is set
DownloadName == "gemini-tts-" \o selectedVoice \o ".wav"

(* ------------------------------- Init --------------------------------- *)

\* Every cell but the four the request is built from, as useState sets them.
InitOther ==
    /\ narratorScript = <<>>
    /\ isAnalyzing = FALSE
    /\ selectedVoice = VOICES[1]
    /\ isLoading = FALSE
    /\ audioUrl = Null
    /\ error = Null
    /\ isVoiceListOpen = FALSE
    /\ previewLoadingVoiceId = Null
    /\ genCalls = <<>>
    /\ prevCalls = <<>>
    /\ anaCalls = <<>>
    /\ urlLog = <<>>
    /\ revoked = {}
    /\ audios = {}

Init ==
    /\ InitOther
    /\ text = DefaultText
    /\ styleInstructions = DefaultStyle
    /\ speed = SpeedNeutral
    /\ pitch = PitchNeutral

(* --------------------------- specifications --------------------------- *)

\* What the user types in Spec: nothing, blanks only, or the default.
ScriptInputs == {<<>>, <<" ">>, <<"Once upon a time ...">>}
TextInputs == {<<>>, <<" ">>, DefaultText}
StyleInputs == {<<>>, DefaultStyle}
Voices == {VOICES[k] : k \in 1..Len(VOICES)}

Next ==
    \/ \E v \in ScriptInputs : SetNarratorScript(v)
    \/ \E v \in StyleInputs : SetStyleInstructions(v)
    \/ \E v \in TextInputs : SetText(v)
    \/ ToggleVoiceList
    \/ handleClickOutside
    \/ \E v \in Voices : handlePreviewVoice(v)
    \/ \E i \in 1..Len(prevCalls), r \in SynthResponses, plays \in BOOLEAN :
            PreviewSettle(i, r, plays)
    \/ \E u \in audios : AudioEnded(u)
    \/ handleAnalyzeScript
    \/ \E i \in 1..Len(anaCalls), r \in TextResponses : AnalyzeSettle(i, r)
    \/ handleGenerateSpeech
    \/ \E i \in 1..Len(genCalls), r \in SynthResponses : GenerateSettle(i, r)

\* The application with the selected voice and the sliders left at their
\* defaults.
Spec == Init /\ [][Next]_vars

\* Generation alone.
NextGenerate ==
    \/ handleGenerateSpeech
    \/ \E i \in 1..Len(genCalls), r \in SynthResponses : GenerateSettle(i, r)

\* Generation with the voice list: another voice is selected at any time.
NextVoice ==
    \/ ToggleVoiceList
    \/ handleClickOutside
    \/ \E v \in Voices : SelectVoice(v)
    \/ \E v \in StyleInputs : SetStyleInstructions(v)
    \/ NextGenerate

SpecVoice == Init /\ [][NextVoice]_vars

\* Audio responses of one, two and four bytes of samples beside the others.
AudioResponses ==
    SynthResponses \cup {[ok |-> TRUE, data |-> d] : d \in {"AAE=", "/w=="}}

\* Preview and generation with these responses and any voice.
NextContainer ==
    \/ ToggleVoiceList
    \/ \E v \in Voices : SelectVoice(v)
    \/ \E v \in Voices : handlePreviewVoice(v)
    \/ \E i \in 1..Len(prevCalls), r \in AudioResponses, plays \in BOOLEAN :
            PreviewSettle(i, r, plays)
    \/ \E u \in audios : AudioEnded(u)
    \/ handleGenerateSpeech
    \/ \E i \in 1..Len(genCalls), r \in AudioResponses : GenerateSettle(i, r)

SpecContainer == Init /\ [][NextContainer]_vars

\* Nothing has been synthesized or requested yet.
Fresh == urlLog = <<>> /\ genCalls = <<>> /\ prevCalls = <<>>

\* The same after the user has set, before the first request, either text and
\* the sliders to their ends or their defaults.
NextFormat ==
    \/ Fresh /\ \E v \in {DefaultText, PREVIEW_TEXT} : SetText(v)
    \/ Fresh /\ \E v \in {SpeedMin, SpeedNeutral, SpeedMax} : SetSpeed(v)
    \/ Fresh /\ \E v \in {PitchMin, PitchNeutral, PitchMax} : SetPitch(v)
    \/ NextContainer

SpecFormat == Init /\ [][NextFormat]_vars

\* Generation with the sliders moved, before the first request, to any of
\* their positions.
NextOverrides ==
    \/ Fresh /\ \E v \in SpeedDomain : SetSpeed(v)
    \/ Fresh /\ \E v \in PitchDomain : SetPitch(v)
    \/ NextGenerate

SpecOverrides == Init /\ [][NextOverrides]_vars

\* Every short style and text over blanks, line breaks and a letter, the
\* documented example, and a string with whitespace at both ends.
PromptStrings ==
    Strings({" ", "\n", "a"}, MaxLen)
    \cup {<<"Read warmly:">>, <<"Hi there">>, <<" ", "Hi", " ", "there", "\n">>}

\* Generation with the style and the text edited, before the first request,
\* to any of these strings.
NextPrompt ==
    \/ Fresh /\ \E v \in PromptStrings : SetStyleInstructions(v)
    \/ Fresh /\ \E v \in PromptStrings : SetText(v)
    \/ NextGenerate

SpecPrompt == Init /\ [][NextPrompt]_vars

(* ------------------------------- claims ------------------------------- *)

\* C1: in every reachable state at most one voice-preview remote call is in
\* flight, whichever voices the previews are asked for.
C1_OnePreviewInFlight == Len(prevCalls) <= 1

\* A preview is in flight while the preview button of another voice is shown
\* and enabled, and a further synthesis call would be within the bounds.
C1_Witness ==
    /\ Len(prevCalls) = 1
    /\ isVoiceListOpen
    /\ CanSynthesize
    /\ \E v \in Voices : ~PreviewButtonDisabled(v)

\* C2: at most one generate remote call is ever in flight: no second call is
\* issued while the first has not settled.
C2_OneGenerateInFlight == Len(genCalls) <= 1

\* A generate call is in flight while the text is non-empty and a further
\* synthesis call would be within the bounds.
C2_Witness ==
    /\ Len(genCalls) = 1
    /\ isLoading
    /\ ~TextIsEmpty(text)
    /\ CanSynthesize

\* C3: at most one analysis remote call is in flight at any time.
C3_OneAnalyzeInFlight == Len(anaCalls) <= 1

\* An analysis is in flight while the script is non-empty.
C3_Witness ==
    /\ Len(anaCalls) = 1
    /\ isAnalyzing
    /\ ~ScriptIsEmpty

\* C4: in each of the three domains the busy flag is set only while an
\* operation of that domain is in flight, so every settled operation, on
\* whichever exit path, leaves its flag cleared.
C4_BusyOnlyWhileInFlight ==
    /\ isLoading => genCalls # <<>>
    /\ Truthy(previewLoadingVoiceId) => prevCalls # <<>>
    /\ isAnalyzing => anaCalls # <<>>

\* A generate has ended by a decode error and left its flag cleared.
C4_Witness ==
    /\ error = "An error occurred: " \o DecodeMessage
    /\ ~isLoading
    /\ genCalls = <<>>

\* C5: a step in which a preview's remote call fails with the remote error
\* ends with the preview flag cleared and creates no blob URL and no Audio
\* element.
C5_PreviewRemoteErrorLeavesNoAsset ==
    [][(/\ Len(prevCalls') < Len(prevCalls)
        /\ error' = "Preview failed: " \o RemoteMessage)
       => (/\ previewLoadingVoiceId' = Null
           /\ urlLog' = urlLog
           /\ audios' = audios
           /\ revoked' = revoked)]_vars

\* A preview has failed with the remote error.
C5_Witness ==
    /\ error = "Preview failed: " \o RemoteMessage
    /\ previewLoadingVoiceId = Null
    /\ prevCalls = <<>>

\* s without its leading and trailing whitespace, said without recursion: the
\* part from the first to the last chunk that is not whitespace.
Stripped(s) ==
    LET solid == {k \in 1..Len(s) : ~IsSpace(s[k])}
    IN  IF solid = {} THEN <<>>
        ELSE SubSeq(s, CHOOSE k \in solid : \A j \in solid : k <= j,
                       CHOOSE k \in solid : \A j \in solid : k >= j)

\* C6: a click on analyze with a script that is empty after trimming issues no
\* remote call, shows the validation error in that same step, leaves the
\* analyze flag cleared and the style instruction as it was.
C6_EmptyScriptNotDispatched ==
    [][(handleAnalyzeScript /\ Stripped(narratorScript) = <<>>)
       => (/\ anaCalls' = anaCalls
           /\ error' = "Please paste a script to analyze."
           /\ ~isAnalyzing'
           /\ styleInstructions' = styleInstructions)]_vars

\* The validation error of analyze is shown for a script of blanks.
C6_Witness ==
    /\ error = "Please paste a script to analyze."
    /\ narratorScript = <<" ">>
    /\ anaCalls = <<>>

\* C7: a click on generate with a text that is empty or whitespace only issues
\* no remote call, shows the validation error and leaves the generate flag and
\* the displayed result as they were.
C7_EmptyTextNotDispatched ==
    [][(handleGenerateSpeech /\ Stripped(text) = <<>>)
       => (/\ genCalls' = genCalls
           /\ error' = "Please enter some text to generate speech."
           /\ isLoading' = isLoading
           /\ audioUrl' = audioUrl)]_vars

\* The validation error of generate is shown for a text of blanks while an
\* earlier result is still displayed.
C7_Witness ==
    /\ error = "Please enter some text to generate speech."
    /\ text = <<" ">>
    /\ Truthy(audioUrl)
    /\ genCalls = <<>>

\* C8: the request a generate click issues carries a rate iff speed is not 1.0
\* and a pitch iff pitch is not 0.0, each equal to the slider's value, and the
\* one is decided whatever the other is.
C8_OverridesIffNotNeutral ==
    [][Len(genCalls') > Len(genCalls)
       => LET cfg == genCalls'[Len(genCalls')].speechConfig
          IN  /\ ("rate" \in DOMAIN cfg) <=> (speed # 100)
              /\ ("rate" \in DOMAIN cfg) => cfg.rate = speed
              /\ ("pitch" \in DOMAIN cfg) <=> (pitch # 0)
              /\ ("pitch" \in DOMAIN cfg) => cfg.pitch = pitch]_vars

\* A request in flight carries the pitch of the slider and no rate.
C8_Witness ==
    /\ Len(genCalls) = 1
    /\ speed = 100
    /\ pitch = -5
    /\ DOMAIN genCalls[1].speechConfig = {"voiceName", "pitch"}
    /\ genCalls[1].speechConfig.pitch = -5

\* C9: the prompt a generate click sends is the trimmed style, two line
\* breaks and the trimmed text when the trimmed style is not empty, and the
\* trimmed text alone otherwise.
C9_PromptAssembly ==
    [][Len(genCalls') > Len(genCalls)
       => genCalls'[Len(genCalls')].contents =
              IF Stripped(styleInstructions) # <<>>
              THEN Stripped(styleInstructions) \o <<"\n", "\n">> \o Stripped(text)
              ELSE Stripped(text)]_vars

\* A request in flight for a style of blanks only carries the trimmed text alone.
C9_Witness ==
    /\ Len(genCalls) = 1
    /\ styleInstructions = <<" ", "\n">>
    /\ text = <<" ", "Hi", " ", "there", "\n">>
    /\ genCalls[1].contents = <<"Hi", " ", "there">>

\* C10: every blob URL made by generate that is not the displayed result has
\* been revoked.
C10_SupersededUrlRevoked ==
    \A n \in 1..Len(urlLog) :
        (urlLog[n].by = "generate" /\ BlobUrl(n) # audioUrl) => BlobUrl(n) \in revoked

\* C11: no blob URL made by a preview stays unreleased for good: it is revoked,
\* or the playback that revokes it when it ends is under way.
C11_PreviewUrlReleasedOrPlaying ==
    \A n \in 1..Len(urlLog) :
        (urlLog[n].by = "preview" /\ BlobUrl(n) \notin revoked) => BlobUrl(n) \in audios

\* C12: the three domains are independent: whenever a domain's own flag is
\* clear (and its input is valid and the bound on synthesis calls allows), a
\* click in that domain issues its remote call, whatever the flags of the
\* other two domains are.
C12_DomainsIndependent ==
    /\ (~isLoading /\ Stripped(text) # <<>> /\ CanSynthesize)
        => ENABLED (handleGenerateSpeech /\ Len(genCalls') = Len(genCalls) + 1)
    /\ (~Truthy(previewLoadingVoiceId) /\ isVoiceListOpen /\ CanSynthesize)
        => ENABLED (\E v \in Voices :
                      handlePreviewVoice(v) /\ Len(prevCalls') = Len(prevCalls) + 1)
    /\ (~isAnalyzing /\ Stripped(narratorScript) # <<>>)
        => ENABLED (handleAnalyzeScript /\ Len(anaCalls') = Len(anaCalls) + 1)

\* One operation of each of the three domains is in flight at the same time.
C12_Witness ==
    /\ Len(genCalls) = 1 /\ isLoading
    /\ Len(prevCalls) = 1 /\ Truthy(previewLoadingVoiceId)
    /\ Len(anaCalls) = 1 /\ isAnalyzing

\* The n-byte little-endian number at byte offset off (from 0) of b
RECURSIVE Field(_, _, _)
Field(b, off, n) ==
    IF n = 0 THEN 0 ELSE b[off + 1] + 256 * Field(b, off + 1, n - 1)

\* C13: every blob made by generate or by a preview, of samples of N bytes,
\* is 44 + N bytes long; its size fields are N + 36 (at offset 4) and N (at
\* offset 40); its byte rate (at 28) is sampleRate * channels * bits / 8 and
\* its block align (at 32) is channels * bits / 8, for the sample rate (at 24),
\* the channels (at 22) and the bits per sample (at 34) it declares; the
\* samples follow the header unchanged.
C13_ContainerHeader ==
    \A n \in 1..Len(urlLog) :
        LET b == urlLog[n].blob
            samples == DecodeTable[urlLog[n].data]
            N == Len(samples)
        IN  /\ Len(b) = 44 + N
            /\ Field(b, 4, 4) = N + 36
            /\ Field(b, 40, 4) = N
            /\ Field(b, 28, 4) = (Field(b, 24, 4) * Field(b, 22, 2) * Field(b, 34, 2)) \div 8
            /\ Field(b, 32, 2) = (Field(b, 22, 2) * Field(b, 34, 2)) \div 8
            /\ SubSeq(b, 45, Len(b)) = samples

\* A generate blob of one byte of samples and a preview blob of four.
C13_Witness ==
    \E m, n \in 1..Len(urlLog) :
        /\ urlLog[m].by = "generate" /\ Len(urlLog[m].blob) = 45
        /\ urlLog[n].by = "preview" /\ Len(urlLog[n].blob) = 48

\* C14: a handlePreviewVoice invoked while a preview call is in flight changes
\* nothing: not the key of the preview in flight, not the shown error, not the
\* calls in flight (it is neither queued nor does it cancel) nor any other
\* variable.
C14_BusyPreviewIsNoOp ==
    [][((\E v \in Voices : handlePreviewVoice(v)) /\ prevCalls # <<>>)
            => UNCHANGED vars]_vars

\* A preview is in flight, an error of another operation is shown, and the
\* preview button of another voice can be clicked.
C14_Witness ==
    /\ Len(prevCalls) = 1
    /\ error # Null
    /\ isVoiceListOpen
    /\ \E v \in Voices :
            /\ v # previewLoadingVoiceId
            /\ ~PreviewButtonDisabled(v)
            /\ ENABLED handlePreviewVoice(v)

\* C15: the shown error is one cell, and every step that issues a remote call,
\* of generate, of a preview or of the analysis, leaves that cell empty,
\* whichever operation wrote the error it held.
C15_ErrorClearedAtDispatch ==
    [][(\/ Len(genCalls') > Len(genCalls)
        \/ Len(prevCalls') > Len(prevCalls)
        \/ Len(anaCalls') > Len(anaCalls)) => error' = Null]_vars

\* The error of a failed generation is shown and the analysis can be
\* dispatched.
C15_Witness ==
    /\ error = "An error occurred: " \o RemoteMessage
    /\ ENABLED (handleAnalyzeScript /\ Len(anaCalls') > Len(anaCalls))

\* C16: when a generate call settles with a remote error or with a response
\* without audio payload, no further call is issued for it, no blob is made,
\* no result is displayed afterwards and an error is shown.
C16_GenerateFailureIsTerminal ==
    [][\A i \in 1..Len(genCalls), r \in SynthResponses :
            (GenerateSettle(i, r) /\ (~r.ok \/ r.data \in {Null, ""}))
            => /\ Len(genCalls') = Len(genCalls) - 1
               /\ prevCalls' = prevCalls /\ anaCalls' = anaCalls
               /\ urlLog' = urlLog
               /\ audioUrl' = Null
               /\ error' # Null]_vars

\* A generation that followed a successful one has ended without payload: the
\* earlier result is made but no longer displayed.
C16_Witness ==
    /\ error = "An error occurred: No audio data received from API."
    /\ audioUrl = Null
    /\ genCalls = <<>>
    /\ \E n \in 1..Len(urlLog) : urlLog[n].by = "generate"

\* C17: when an analysis call settles with a text, the style instruction
\* becomes that text without its leading and trailing whitespace, whatever the
\* field held at that moment; when it settles with a failure, the style
\* instruction stays as it was.
C17_AnalysisOverwritesStyle ==
    [][\A i \in 1..Len(anaCalls), r \in TextResponses :
            AnalyzeSettle(i, r)
            => styleInstructions' = IF r.ok /\ "text" \in DOMAIN r
                                    THEN Stripped(r.text)
                                    ELSE styleInstructions]_vars

\* The analysis has settled and the field holds the suggested style, which no
\* typing of the model produces.
C17_Witness ==
    /\ styleInstructions = Stripped(SuggestedStyle)
    /\ styleInstructions \notin StyleInputs
    /\ anaCalls = <<>>
    /\ ~isAnalyzing

\* C18: the header of every blob made by generate or by a preview declares one
\* channel (at offset 22), 24000 samples per second (at 24) and 16 bits per
\* sample (at 34), whatever the voice, the speed, the pitch, the text and the
\* response were.
C18_FixedFormat ==
    \A n \in 1..Len(urlLog) :
        LET b == urlLog[n].blob
        IN  /\ Field(b, 22, 2) = 1
            /\ Field(b, 24, 4) = 24000
            /\ Field(b, 34, 2) = 16

\* A blob of a generation with another voice, the sliders and the text moved,
\* and a blob of a preview of other samples.
C18_Witness ==
    \E m, n \in 1..Len(urlLog) :
        /\ urlLog[m].by = "generate"
        /\ urlLog[m].request.speechConfig.voiceName # VOICES[1]
        /\ DOMAIN urlLog[m].request.speechConfig = {"voiceName", "rate", "pitch"}
        /\ urlLog[m].request.contents # FullPrompt(DefaultStyle, DefaultText)
        /\ urlLog[n].by = "preview"
        /\ urlLog[n].data # urlLog[m].data

\* C19: no result is displayed while the generate flag is set or a generate
\* call is in flight, and a step that displays a result settles the one
\* generate call then in flight, the last dispatched, with the blob made of
\* that call's request.
C19_ResultsDoNotRace ==
    /\ [](Truthy(audioUrl) => (~isLoading /\ genCalls = <<>>))
    /\ [][(audioUrl' # audioUrl /\ Truthy(audioUrl'))
            => /\ Len(genCalls) = 1
               /\ genCalls' = <<>>
               /\ Len(urlLog') = Len(urlLog) + 1
               /\ audioUrl' = BlobUrl(Len(urlLog'))
               /\ urlLog'[Len(urlLog')].by = "generate"
               /\ urlLog'[Len(urlLog')].request = genCalls[1]]_vars

\* The result of a second generation, of another request than the first, is
\* displayed.
C19_Witness ==
    /\ Len(urlLog) = 2
    /\ audioUrl = BlobUrl(2)
    /\ urlLog[1].by = "generate"
    /\ urlLog[2].by = "generate"
    /\ urlLog[2].request # urlLog[1].request

\* C20: while a result is displayed, the voice in the name of its download is
\* the voice of the request the result was made of.
C20_DownloadNamesRequestVoice ==
    \A n \in 1..Len(urlLog) :
        (Truthy(audioUrl) /\ audioUrl = BlobUrl(n))
        => DownloadName = "gemini-tts-"
                          \o urlLog[n].request.speechConfig.voiceName \o ".wav"

====
